---- MODULE Spec2Model ----
(***************************************************************************)
(* Model of x-topic-analyzer: XTopicAnalyzer (x_topic_analyzer.py), its    *)
(* command line entry point main(), and MockXTopicAnalyzer                 *)
(* (test_analyzer.py).                                                     *)
(*                                                                         *)
(* Strings that the program only passes around are TLA+ strings; strings   *)
(* the program slices, concatenates or searches (post text, file names,    *)
(* completion content) are sequences of one-token strings.                 *)
(***************************************************************************)
EXTENDS Integers, Sequences, FiniteSets, TLC

VARIABLES
    pc,                 \* position of the run (main / analyze_topic / harness)
    X_BEARER_TOKEN,     \* main: resolved platform credential
    DEEPSEEK_API_KEY,   \* main: resolved LLM credential
    keyword,            \* main: resolved keyword
    max_posts,          \* main: args.max_posts
    resp,               \* what the search endpoint answered (history of the call)
    posts,              \* analyze_topic: posts returned by search_x_posts
    idx,                \* analyze_topic: loop variable i of enumerate(posts, 1)
    summary,            \* analyze_topic: summary of the current post
    analyzed_posts,     \* analyze_topic: list of row dicts built so far
    results_df,         \* main: DataFrame returned by analyze_topic
    outcomes,           \* outcome of each completion call made, in call order
    search_calls,       \* number of calls of client.search_recent_tweets
    sleeps,             \* number of time.sleep(0.5) taken
    export_calls,       \* number of calls of save_to_excel
    openpyxl_available, \* runtime capability: the openpyxl package can be imported
    files,              \* file system: set of files [name, format, columns, rows]
    printed,            \* console output, one entry per print
    x_df,               \* export harness: DataFrame argument
    x_filename,         \* export harness: filename argument
    t_text,             \* truncation harness: post text
    t_out               \* truncation harness: Original Text computed

vars == <<pc, X_BEARER_TOKEN, DEEPSEEK_API_KEY, keyword, max_posts, resp, posts,
          idx, summary, analyzed_posts, results_df, outcomes, search_calls,
          sleeps, export_calls, openpyxl_available, files, printed,
          x_df, x_filename, t_text, t_out>>

-----------------------------------------------------------------------------
(* Bounds of the model *)

MaxPosts == 2       \* largest --max-posts value / number of posts in a response
MaxTextLen == 203   \* longest post text of the truncation harness

(* Program constants *)

ApiLimit == 100     \* min(max_results, 100)
TruncLen == 200     \* post['text'][:200], len(post['text']) > 200

NoneV == "<None>"   \* Python None, where the other values are strings
NoFilename == <<NoneV>>  \* filename=None, where the other values are token sequences
Sentinel == "Summary generation failed"
Ellipsis == <<".", ".", ".">>

-----------------------------------------------------------------------------
(* Python helpers *)

Truthy(x) == x \notin {NoneV, ""}

\* a or b
PyOr(a, b) == IF Truthy(a) THEN a ELSE b

Min(a, b) == IF a <= b THEN a ELSE b

\* s[:n]
Slice(s, n) == SubSeq(s, 1, Min(n, Len(s)))

\* str.strip() on a token sequence whose blanks are the token " "
RECURSIVE LStrip(_)
LStrip(s) == IF s # <<>> /\ Head(s) = " " THEN LStrip(Tail(s)) ELSE s

RECURSIVE RStrip(_)
RStrip(s) == IF s # <<>> /\ s[Len(s)] = " " THEN RStrip(SubSeq(s, 1, Len(s) - 1)) ELSE s

Strip(s) == RStrip(LStrip(s))

\* filename.endswith('.xlsx')
EndsWithXlsx(fn) == fn # <<>> /\ fn[Len(fn)] = ".xlsx"

\* filename.replace('.xlsx', '.csv'): every occurrence is replaced
ReplaceXlsx(fn) == [k \in 1..Len(fn) |-> IF fn[k] = ".xlsx" THEN ".csv" ELSE fn[k]]

-----------------------------------------------------------------------------
(* External collaborators: what the search endpoint can answer *)

Alphabet == <<"a", ".", "b">>

\* A text of n characters; k varies the content.
MkText(n, k) == [c \in 1..n |-> Alphabet[((c + k) % 3) + 1]]

\* Texts of the posts of a run: one that is kept verbatim, one that is cut.
PostTexts == {MkText(TruncLen, 0), MkText(TruncLen + 1, 1)}

User(uid) == [id |-> uid,
              username |-> IF uid = 1 THEN "alice" ELSE "bob",
              name |-> IF uid = 1 THEN "Alice A" ELSE "Bob B",
              verified |-> (uid = 1)]

AuthorIds == {1, 2}

\* tweets.includes: no author metadata, or the users it lists
IncludesSet == {[present |-> FALSE, users |-> <<>>],
                [present |-> TRUE, users |-> <<User(1)>>],
                [present |-> TRUE, users |-> <<User(1), User(2)>>]}

GoodMetrics(k) == [retweet_count |-> k, like_count |-> 10 * k, reply_count |-> k + 1]
BadMetrics(k) == [retweet_count |-> k, like_count |-> 10 * k]

\* datetime of tweet k: year, month, day, hour, minute, second
CreatedAt(k) == [y |-> 2025, mo |-> 2, d |-> 15, h |-> 10, mi |-> 30 + k, s |-> 7]

\* Tweet k of a response; bad marks the tweet whose public_metrics lacks a key.
Tweet(k, text, author, bad) ==
    [id |-> 1000 + k, text |-> text, created_at |-> CreatedAt(k),
     author_id |-> author,
     public_metrics |-> IF bad THEN BadMetrics(k) ELSE GoodMetrics(k)]

\* Answers of client.search_recent_tweets asked for at most `limit` tweets:
\* the call raises, or returns tweets.data (None and [] both as <<>>) with
\* tweets.includes.
APIResponses(limit) ==
    {[raised |-> TRUE, data |-> <<>>, includes |-> [present |-> FALSE, users |-> <<>>]]}
    \cup
    {[raised |-> FALSE, data |-> <<>>, includes |-> inc] : inc \in IncludesSet}
    \cup
    UNION {
      {[raised |-> FALSE,
        data |-> [k \in 1..n |-> Tweet(k, texts[k], authors[k], k = bad)],
        includes |-> inc] :
          texts \in [1..n -> PostTexts], authors \in [1..n -> AuthorIds],
          bad \in 0..n, inc \in IncludesSet}
      : n \in 1..limit}

\* Answers of deepseek_client.chat.completions.create: the call raises, the
\* choice carries no content, or it carries content (here with blanks around).
CompletionOutcomes ==
    {[kind |-> "raise", content |-> <<>>],
     [kind |-> "none", content |-> <<>>],
     [kind |-> "ok", content |-> <<" ", "A short summary.", " ">>]}

-----------------------------------------------------------------------------
(* XTopicAnalyzer.search_x_posts *)

\* users = {}; for user in tweets.includes['users']: users[user.id] = user
UsersDict(includes) ==
    IF includes.present
    THEN [uid \in {includes.users[k].id : k \in 1..Len(includes.users)} |->
            CHOOSE u \in {includes.users[k] : k \in 1..Len(includes.users)} : u.id = uid]
    ELSE [uid \in {} |-> User(1)]

MetricKeys == {"retweet_count", "like_count", "reply_count"}

\* Building post_info raises KeyError when a metric is missing.
PostInfoRaises(tweet) == ~(MetricKeys \subseteq DOMAIN tweet.public_metrics)

\* post_info for one tweet; users.get(tweet.author_id) may be None
PostInfo(tweet, users) ==
    LET found == tweet.author_id \in DOMAIN users
        username == IF found THEN users[tweet.author_id].username ELSE "unknown"
    IN [tweet_id |-> tweet.id,
        text |-> tweet.text,
        created_at |-> tweet.created_at,
        author_id |-> tweet.author_id,
        author_username |-> username,
        author_name |-> IF found THEN users[tweet.author_id].name ELSE "unknown",
        author_verified |-> IF found THEN users[tweet.author_id].verified ELSE FALSE,
        retweet_count |-> tweet.public_metrics.retweet_count,
        like_count |-> tweet.public_metrics.like_count,
        reply_count |-> tweet.public_metrics.reply_count,
        url |-> <<"https://twitter.com/", username, "/status/", ToString(tweet.id)>>]

\* A loop that passes over the tweets whose author is not in users.
RECURSIVE MapTweets_skip_unknown(_, _, _)
MapTweets_skip_unknown(data, users, acc) ==
    IF data = <<>> THEN [raised |-> FALSE, posts_data |-> acc]
    ELSE IF PostInfoRaises(Head(data)) THEN [raised |-> TRUE, posts_data |-> acc]
    ELSE IF Head(data).author_id \notin DOMAIN users
         THEN MapTweets_skip_unknown(Tail(data), users, acc)
    ELSE MapTweets_skip_unknown(Tail(data), users, Append(acc, PostInfo(Head(data), users)))

\* The for loop over tweets.data: posts_data so far, and whether it raised.
RECURSIVE MapTweets(_, _, _)
MapTweets(data, users, acc) ==
    IF data = <<>> THEN [raised |-> FALSE, posts_data |-> acc]
    ELSE IF PostInfoRaises(Head(data)) THEN [raised |-> TRUE, posts_data |-> acc]
    ELSE MapTweets(Tail(data), users, Append(acc, PostInfo(Head(data), users)))

\* A handler that gives back what was mapped before the failure.
search_x_posts_partial(kw, max_results, r) ==
    IF r.raised THEN [ret |-> <<>>, out |-> <<<<"Error searching X">>>>, raised |-> FALSE]
    ELSE IF r.data = <<>> THEN [ret |-> <<>>, out |-> <<<<"No tweets found for keyword: ", kw>>>>, raised |-> FALSE]
    ELSE LET m == MapTweets(r.data, UsersDict(r.includes), <<>>)
         IN IF m.raised THEN [ret |-> m.posts_data, out |-> <<<<"Error searching X">>>>, raised |-> FALSE]
            ELSE [ret |-> m.posts_data, out |-> <<>>, raised |-> FALSE]

\* search_x_posts given the endpoint's answer r: the value returned, the
\* lines printed, and whether an error escapes the try/except.
search_x_posts(kw, max_results, r) ==
    IF r.raised THEN [ret |-> <<>>, out |-> <<<<"Error searching X">>>>, raised |-> FALSE]
    ELSE IF r.data = <<>> THEN [ret |-> <<>>, out |-> <<<<"No tweets found for keyword: ", kw>>>>, raised |-> FALSE]
    ELSE LET m == MapTweets(r.data, UsersDict(r.includes), <<>>)
         IN IF m.raised THEN [ret |-> <<>>, out |-> <<<<"Error searching X">>>>, raised |-> FALSE]
            ELSE [ret |-> m.posts_data, out |-> <<>>, raised |-> FALSE]

-----------------------------------------------------------------------------
(* XTopicAnalyzer.generate_summary_with_deepseek *)

\* A summarizer that lets the failure of the call escape.
generate_summary_propagating(text, kw, o) ==
    IF o.kind = "ok" THEN [ret |-> Strip(o.content), out |-> <<>>, raised |-> FALSE]
    ELSE [ret |-> <<>>, out |-> <<>>, raised |-> TRUE]

\* The value returned, the lines printed, and whether an error escapes.
generate_summary_with_deepseek(text, kw, o) ==
    IF o.kind = "ok" THEN [ret |-> Strip(o.content), out |-> <<>>, raised |-> FALSE]
    ELSE [ret |-> <<Sentinel>>, out |-> <<<<"Error generating summary">>>>, raised |-> FALSE]

-----------------------------------------------------------------------------
(* XTopicAnalyzer.analyze_topic: one row *)

\* Cuts at the limit but leaves the marker out.
OriginalText_no_marker(text) == IF Len(text) > TruncLen THEN Slice(text, TruncLen) ELSE text

\* post['text'][:200] + '...' if len(post['text']) > 200 else post['text']
OriginalText(text) ==
    IF Len(text) > TruncLen THEN Slice(text, TruncLen) \o Ellipsis ELSE text

\* strftime('%Y-%m-%d %H:%M'): the seconds are dropped
Strftime(dt) == <<dt.y, dt.mo, dt.d, dt.h, dt.mi>>

Columns == <<"Topic", "Author", "Author Verified", "Post Date", "Post Link",
             "Short Summary", "Original Text", "Engagement">>

\* The analyzed_post dict (emoji of the Engagement string written in ASCII)
AnalyzedPost(kw, post, summ) ==
    [c \in {Columns[k] : k \in 1..Len(Columns)} |->
        CASE c = "Topic" -> kw
          [] c = "Author" -> <<post.author_name, " (@", post.author_username, ")">>
          [] c = "Author Verified" -> post.author_verified
          [] c = "Post Date" -> Strftime(post.created_at)
          [] c = "Post Link" -> post.url
          [] c = "Short Summary" -> summ
          [] c = "Original Text" -> OriginalText(post.text)
          [] c = "Engagement" -> <<"heart ", ToString(post.like_count),
                                   " | rt ", ToString(post.retweet_count),
                                   " | reply ", ToString(post.reply_count)>>]

\* pd.DataFrame(list of dicts); pd.DataFrame() is DataFrame(<<>>)
DataFrame(rows) ==
    IF rows = <<>> THEN [columns |-> <<>>, rows |-> <<>>]
    ELSE [columns |-> Columns, rows |-> rows]

\* df.empty
IsEmpty(df) == df.columns = <<>> \/ df.rows = <<>>

-----------------------------------------------------------------------------
(* The file system and the two exporters *)

\* Writing a file creates it or replaces the file of that name.
WriteFile(fs, f) == {g \in fs : g.name # f.name} \cup {f}

XlsxFile(name, df) ==
    [name |-> name, format |-> "xlsx", columns |-> df.columns, rows |-> df.rows]

\* df.to_csv(name, index=False): the header line, then one line per row
CsvFile(name, df) ==
    [name |-> name, format |-> "csv", columns |-> df.columns, rows |-> df.rows]

\* Timestamp of datetime.now().strftime('%Y%m%d_%H%M%S')
Timestamps == {"20250215_103000"}

\* Failures of the file system while a file is opened or written
WriteFailures == {"none", "oserror"}

SavedLines(name, df) ==
    <<<<"Results saved to: ">> \o name, <<"Total posts analyzed: ", ToString(Len(df.rows))>>>>

\* XTopicAnalyzer.save_to_excel past the df.empty check.
\* pd.ExcelWriter(engine='openpyxl') raises ImportError without openpyxl; an
\* OSError while the workbook is opened or saved is not caught either, nor is
\* the ValueError the openpyxl writer raises for a name that is not .xlsx.
save_to_excel_write(df, filename, avail, fail, ts, fs) ==
    LET name == IF filename = NoFilename THEN <<"x_analysis_", ts, ".xlsx">> ELSE filename
    IN IF ~avail \/ fail # "none" \/ ~EndsWithXlsx(name)
       THEN [files |-> fs, out |-> <<>>, raised |-> TRUE, written |-> <<>>]
       ELSE [files |-> WriteFile(fs, XlsxFile(name, df)),
             out |-> SavedLines(name, df), raised |-> FALSE, written |-> name]

\* An exporter that does not look at df.empty.
save_to_excel_unguarded(df, filename, avail, fail, ts, fs) ==
    save_to_excel_write(df, filename, avail, fail, ts, fs)

\* XTopicAnalyzer.save_to_excel: the file system after the call, the lines
\* printed, whether an error escapes, and the name of the file written.
save_to_excel(df, filename, avail, fail, ts, fs) ==
    IF IsEmpty(df)
    THEN [files |-> fs, out |-> <<<<"No data to save">>>>, raised |-> FALSE, written |-> <<>>]
    ELSE save_to_excel_write(df, filename, avail, fail, ts, fs)

\* MockXTopicAnalyzer.save_to_excel past the df.empty check.  Only
\* ImportError is caught: a missing openpyxl falls back to csv, an OSError
\* escapes.
Mock_save_to_excel_write(df, filename, avail, fail, ts, fs) ==
    LET name == IF filename = NoFilename
                THEN <<"x_analysis_mock_", ts, IF avail THEN ".xlsx" ELSE ".csv">>
                ELSE filename
        saving == <<<<"Saving results to: ">> \o name>>
        csv_filename == ReplaceXlsx(name)
    IN IF EndsWithXlsx(name)
       THEN IF ~avail
            THEN \* except ImportError: df.to_csv(csv_filename)
                 IF fail # "none"
                 THEN [files |-> fs, out |-> saving, raised |-> TRUE, written |-> <<>>]
                 ELSE [files |-> WriteFile(fs, CsvFile(csv_filename, df)),
                       out |-> saving \o SavedLines(csv_filename, df),
                       raised |-> FALSE, written |-> csv_filename]
            ELSE IF fail # "none"
                 THEN [files |-> fs, out |-> saving, raised |-> TRUE, written |-> <<>>]
                 ELSE [files |-> WriteFile(fs, XlsxFile(name, df)),
                       out |-> saving \o SavedLines(name, df),
                       raised |-> FALSE, written |-> name]
       ELSE \* df.to_csv(filename, index=False)
            IF fail # "none"
            THEN [files |-> fs, out |-> saving, raised |-> TRUE, written |-> <<>>]
            ELSE [files |-> WriteFile(fs, CsvFile(name, df)),
                  out |-> saving \o SavedLines(name, df),
                  raised |-> FALSE, written |-> name]

\* MockXTopicAnalyzer.save_to_excel
Mock_save_to_excel(df, filename, avail, fail, ts, fs) ==
    IF IsEmpty(df)
    THEN [files |-> fs, out |-> <<<<"No data to save">>>>, raised |-> FALSE, written |-> <<>>]
    ELSE Mock_save_to_excel_write(df, filename, avail, fail, ts, fs)

-----------------------------------------------------------------------------
(* main() and analyze_topic(), step by step *)

NoResponse == [raised |-> FALSE, data |-> <<>>, includes |-> [present |-> FALSE, users |-> <<>>]]

\* Values of --x-bearer-token / --deepseek-key and of the environment
\* (unset, set to the empty string, set)
CliValues == {NoneV, "", "credential"}
EnvValues == {NoneV, "", "credential"}

\* Values of --keyword, and what the user types at the prompt
CliKeywords == {NoneV, "ai"}
TypedKeywords == {""}

Init ==
    /\ pc = "start"
    /\ X_BEARER_TOKEN = NoneV
    /\ DEEPSEEK_API_KEY = NoneV
    /\ keyword = NoneV
    /\ max_posts = 0
    /\ resp = NoResponse
    /\ posts = <<>>
    /\ idx = 0
    /\ summary = <<>>
    /\ analyzed_posts = <<>>
    /\ results_df = DataFrame(<<>>)
    /\ outcomes = <<>>
    /\ search_calls = 0
    /\ sleeps = 0
    /\ export_calls = 0
    /\ openpyxl_available \in BOOLEAN
    /\ files = {}
    /\ printed = <<>>
    /\ x_df = DataFrame(<<>>)
    /\ x_filename = NoFilename
    /\ t_text = <<>>
    /\ t_out = <<>>

harness_vars == <<x_df, x_filename, t_text, t_out>>

\* Validation that halts only when both credentials are missing.
CredentialsMissing_both(token, key) == ~Truthy(token) /\ ~Truthy(key)

\* if not X_BEARER_TOKEN or not DEEPSEEK_API_KEY
CredentialsMissing(token, key) == ~Truthy(token) \/ ~Truthy(key)

\* main() up to the call of analyze_topic
MainStart ==
    /\ pc = "start"
    /\ \E cli_token \in CliValues, env_token \in EnvValues,
          cli_key \in CliValues, env_key \in EnvValues,
          cli_keyword \in CliKeywords, typed \in TypedKeywords, mp \in 1..MaxPosts :
        LET token == PyOr(cli_token, env_token)
            key == PyOr(cli_key, env_key)
        IN /\ X_BEARER_TOKEN' = token
           /\ DEEPSEEK_API_KEY' = key
           /\ IF CredentialsMissing(token, key)
              THEN /\ printed' = printed \o <<<<"Error: Missing API credentials">>,
                                             <<"Please provide X Bearer Token and DeepSeek API Key">>,
                                             <<"You can set them as environment variables or pass as arguments">>>>
                   /\ pc' = "halted"
                   /\ UNCHANGED <<keyword, max_posts>>
              ELSE /\ keyword' = IF Truthy(cli_keyword) THEN cli_keyword ELSE typed
                   /\ max_posts' = mp
                   /\ printed' = printed
                   /\ pc' = "fetching"
    /\ UNCHANGED <<resp, posts, idx, summary, analyzed_posts, results_df, outcomes,
                   search_calls, sleeps, export_calls, openpyxl_available, files,
                   harness_vars>>

\* analyze_topic: the search and the `if not posts` early return
Fetch ==
    /\ pc = "fetching"
    /\ \E r \in APIResponses(Min(max_posts, ApiLimit)) :
        LET s == search_x_posts(keyword, max_posts, r)
        IN /\ resp' = r
           /\ posts' = s.ret
           /\ search_calls' = search_calls + 1
           /\ IF s.raised
              THEN /\ printed' = Append(printed, <<"Searching X for: ", keyword>>)
                   /\ pc' = "crashed"
                   /\ UNCHANGED <<idx, results_df>>
              ELSE IF s.ret = <<>>
              THEN /\ results_df' = DataFrame(<<>>)
                   /\ printed' = printed \o <<<<"Searching X for: ", keyword>>>> \o s.out
                   /\ pc' = "returned"
                   /\ UNCHANGED idx
              ELSE /\ printed' = printed \o <<<<"Searching X for: ", keyword>>>> \o s.out
                                     \o <<<<"Found ", ToString(Len(s.ret)), " posts">>>>
                   /\ idx' = 1
                   /\ pc' = "summarizing"
                   /\ UNCHANGED results_df
    /\ UNCHANGED <<X_BEARER_TOKEN, DEEPSEEK_API_KEY, keyword, max_posts, summary,
                   analyzed_posts, outcomes, sleeps, export_calls,
                   openpyxl_available, files, harness_vars>>

\* A loop body that calls the endpoint again for the same post when the
\* call has failed.
LoopCall_retry ==
    /\ pc = "summarizing"
    /\ \E o \in CompletionOutcomes :
        LET g == generate_summary_with_deepseek(posts[idx].text, keyword, o)
        IN /\ outcomes' = Append(outcomes, [post |-> idx, kind |-> o.kind, content |-> o.content])
           /\ printed' = printed \o <<<<"Processing post ", ToString(idx)>>>> \o g.out
           /\ summary' = g.ret
           /\ pc' = IF o.kind = "ok" THEN "append" ELSE "summarizing"
    /\ UNCHANGED <<X_BEARER_TOKEN, DEEPSEEK_API_KEY, keyword, max_posts, resp, posts,
                   idx, analyzed_posts, results_df, search_calls, sleeps,
                   export_calls, openpyxl_available, files, harness_vars>>

\* Loop body, first half: the completion call for posts[idx]
LoopCall ==
    /\ pc = "summarizing"
    /\ \E o \in CompletionOutcomes :
        LET g == generate_summary_with_deepseek(posts[idx].text, keyword, o)
        IN /\ outcomes' = Append(outcomes, [post |-> idx, kind |-> o.kind, content |-> o.content])
           /\ printed' = printed \o <<<<"Processing post ", ToString(idx)>>>> \o g.out
           /\ summary' = g.ret
           /\ pc' = IF g.raised THEN "crashed" ELSE "append"
    /\ UNCHANGED <<X_BEARER_TOKEN, DEEPSEEK_API_KEY, keyword, max_posts, resp, posts,
                   idx, analyzed_posts, results_df, search_calls, sleeps,
                   export_calls, openpyxl_available, files, harness_vars>>

\* A loop body that leaves out the posts whose summary failed.
LoopAppend_skip_failed ==
    /\ pc = "append"
    /\ analyzed_posts' = IF summary = <<Sentinel>> THEN analyzed_posts
                         ELSE Append(analyzed_posts, AnalyzedPost(keyword, posts[idx], summary))
    /\ pc' = "sleep"
    /\ UNCHANGED <<X_BEARER_TOKEN, DEEPSEEK_API_KEY, keyword, max_posts, resp, posts,
                   idx, summary, results_df, outcomes, search_calls, sleeps,
                   export_calls, openpyxl_available, files, printed,
                   harness_vars>>

\* Loop body, second half: analyzed_posts.append(analyzed_post)
LoopAppend ==
    /\ pc = "append"
    /\ analyzed_posts' = Append(analyzed_posts, AnalyzedPost(keyword, posts[idx], summary))
    /\ pc' = "sleep"
    /\ UNCHANGED <<X_BEARER_TOKEN, DEEPSEEK_API_KEY, keyword, max_posts, resp, posts,
                   idx, summary, results_df, outcomes, search_calls, sleeps,
                   export_calls, openpyxl_available, files, printed,
                   harness_vars>>

\* A loop that stops one post early.
LoopSleep_short ==
    /\ pc = "sleep"
    /\ sleeps' = sleeps + 1
    /\ IF idx + 1 < Len(posts)
       THEN /\ idx' = idx + 1
            /\ pc' = "summarizing"
       ELSE /\ pc' = "assembling"
            /\ UNCHANGED idx
    /\ UNCHANGED <<X_BEARER_TOKEN, DEEPSEEK_API_KEY, keyword, max_posts, resp, posts,
                   summary, analyzed_posts, results_df, outcomes, search_calls,
                   export_calls, openpyxl_available, files, printed, harness_vars>>

\* time.sleep(0.5), then the next post or the end of the loop
LoopSleep ==
    /\ pc = "sleep"
    /\ sleeps' = sleeps + 1
    /\ IF idx < Len(posts)
       THEN /\ idx' = idx + 1
            /\ pc' = "summarizing"
       ELSE /\ pc' = "assembling"
            /\ UNCHANGED idx
    /\ UNCHANGED <<X_BEARER_TOKEN, DEEPSEEK_API_KEY, keyword, max_posts, resp, posts,
                   summary, analyzed_posts, results_df, outcomes, search_calls,
                   export_calls, openpyxl_available, files, printed, harness_vars>>

\* return pd.DataFrame(analyzed_posts)
Assemble ==
    /\ pc = "assembling"
    /\ results_df' = DataFrame(analyzed_posts)
    /\ pc' = "returned"
    /\ UNCHANGED <<X_BEARER_TOKEN, DEEPSEEK_API_KEY, keyword, max_posts, resp, posts,
                   idx, summary, analyzed_posts, outcomes, search_calls, sleeps,
                   export_calls, openpyxl_available, files, printed,
                   harness_vars>>

\* A main() that saves whatever analyze_topic returned.
MainAfterAnalyze_always_save ==
    /\ pc = "returned"
    /\ pc' = "exporting"
    /\ UNCHANGED <<X_BEARER_TOKEN, DEEPSEEK_API_KEY, keyword, max_posts, resp, posts,
                   idx, summary, analyzed_posts, results_df, outcomes, search_calls,
                   sleeps, export_calls, openpyxl_available, files, printed,
                   harness_vars>>

\* main(): if not results_df.empty ... else print("No results found.")
MainAfterAnalyze ==
    /\ pc = "returned"
    /\ IF ~IsEmpty(results_df)
       THEN /\ pc' = "exporting"
            /\ UNCHANGED printed
       ELSE /\ pc' = "done_empty"
            /\ printed' = Append(printed, <<"No results found.">>)
    /\ UNCHANGED <<X_BEARER_TOKEN, DEEPSEEK_API_KEY, keyword, max_posts, resp, posts,
                   idx, summary, analyzed_posts, results_df, outcomes, search_calls,
                   sleeps, export_calls, openpyxl_available, files, harness_vars>>

\* main(): analyzer.save_to_excel(results_df) and the sample printed after it
Export ==
    /\ pc = "exporting"
    /\ \E fail \in WriteFailures, ts \in Timestamps :
        LET r == save_to_excel(results_df, NoFilename, openpyxl_available, fail, ts, files)
        IN /\ files' = r.files
           /\ export_calls' = export_calls + 1
           /\ IF r.raised
              THEN /\ pc' = "crashed"
                   /\ printed' = printed \o r.out
              ELSE /\ pc' = "done"
                   /\ printed' = printed \o r.out \o <<<<"Sample Results:">>>>
    /\ UNCHANGED <<X_BEARER_TOKEN, DEEPSEEK_API_KEY, keyword, max_posts, resp, posts,
                   idx, summary, analyzed_posts, results_df, outcomes, search_calls,
                   sleeps, openpyxl_available, harness_vars>>

Next ==
    \/ MainStart
    \/ Fetch
    \/ LoopCall
    \/ LoopAppend
    \/ LoopSleep
    \/ Assemble
    \/ MainAfterAnalyze
    \/ Export

Spec == Init /\ [][Next]_vars

-----------------------------------------------------------------------------
(* The exporters called directly, on any row set and filename *)

\* A post as search_x_posts maps it, with a short text
SamplePost(k) ==
    PostInfo(Tweet(k, MkText(3, k), 1, FALSE), UsersDict([present |-> TRUE, users |-> <<User(1)>>]))

SampleRow(k) == AnalyzedPost("ai", SamplePost(k), <<"A short summary.">>)

\* DataFrames of 0..MaxPosts rows
ExportFrames == {DataFrame([k \in 1..n |-> SampleRow(k)]) : n \in 0..MaxPosts}

ExportFilenames ==
    {NoFilename, <<"out", ".xlsx">>, <<"out", ".csv">>, <<"my", ".xlsx", "_data", ".xlsx">>}

OldFile(name) == [name |-> name, format |-> "old", columns |-> <<>>, rows |-> <<>>]

\* Files already on disk before the call
OldFiles == {OldFile(<<"out", ".xlsx">>), OldFile(<<"out", ".csv">>)}

InitExport ==
    /\ pc = "x_ready"
    /\ X_BEARER_TOKEN = NoneV
    /\ DEEPSEEK_API_KEY = NoneV
    /\ keyword = NoneV
    /\ max_posts = 0
    /\ resp = NoResponse
    /\ posts = <<>>
    /\ idx = 0
    /\ summary = <<>>
    /\ analyzed_posts = <<>>
    /\ results_df = DataFrame(<<>>)
    /\ outcomes = <<>>
    /\ search_calls = 0
    /\ sleeps = 0
    /\ export_calls = 0
    /\ openpyxl_available \in BOOLEAN
    /\ files \in {{}, OldFiles}
    /\ printed = <<>>
    /\ x_df \in ExportFrames
    /\ x_filename \in ExportFilenames
    /\ t_text = <<>>
    /\ t_out = <<>>

run_vars == <<X_BEARER_TOKEN, DEEPSEEK_API_KEY, keyword, max_posts, resp, posts, idx,
              summary, analyzed_posts, results_df, outcomes, search_calls, sleeps>>

\* analyzer.save_to_excel(x_df, x_filename) on an XTopicAnalyzer
CallSaveToExcel ==
    /\ pc = "x_ready"
    /\ \E fail \in WriteFailures, ts \in Timestamps :
        LET r == save_to_excel(x_df, x_filename, openpyxl_available, fail, ts, files)
        IN /\ files' = r.files
           /\ printed' = printed \o r.out
           /\ pc' = IF r.raised THEN "x_real_raised" ELSE "x_real_returned"
    /\ export_calls' = export_calls + 1
    /\ UNCHANGED <<run_vars, openpyxl_available, x_df, x_filename, t_text, t_out>>

\* analyzer.save_to_excel(x_df, x_filename) on a MockXTopicAnalyzer
CallMockSaveToExcel ==
    /\ pc = "x_ready"
    /\ \E fail \in WriteFailures, ts \in Timestamps :
        LET r == Mock_save_to_excel(x_df, x_filename, openpyxl_available, fail, ts, files)
        IN /\ files' = r.files
           /\ printed' = printed \o r.out
           /\ pc' = IF r.raised THEN "x_mock_raised" ELSE "x_mock_returned"
    /\ export_calls' = export_calls + 1
    /\ UNCHANGED <<run_vars, openpyxl_available, x_df, x_filename, t_text, t_out>>

NextExport ==
    \/ CallSaveToExcel
    \/ CallMockSaveToExcel

SpecExport == InitExport /\ [][NextExport]_vars

-----------------------------------------------------------------------------
(* The Original Text expression applied to any text *)

TextInputs == {MkText(n, k) : n \in 0..MaxTextLen, k \in 0..2}

InitTruncate ==
    /\ pc = "t_ready"
    /\ X_BEARER_TOKEN = NoneV
    /\ DEEPSEEK_API_KEY = NoneV
    /\ keyword = NoneV
    /\ max_posts = 0
    /\ resp = NoResponse
    /\ posts = <<>>
    /\ idx = 0
    /\ summary = <<>>
    /\ analyzed_posts = <<>>
    /\ results_df = DataFrame(<<>>)
    /\ outcomes = <<>>
    /\ search_calls = 0
    /\ sleeps = 0
    /\ export_calls = 0
    /\ openpyxl_available = TRUE
    /\ files = {}
    /\ printed = <<>>
    /\ x_df = DataFrame(<<>>)
    /\ x_filename = NoFilename
    /\ t_text \in TextInputs
    /\ t_out = <<>>

\* 'Original Text': ... evaluated on t_text
ComputeOriginalText ==
    /\ pc = "t_ready"
    /\ t_out' = OriginalText(t_text)
    /\ pc' = "t_done"
    /\ UNCHANGED <<run_vars, export_calls, openpyxl_available, files, printed,
                   x_df, x_filename, t_text>>

NextTruncate == ComputeOriginalText

SpecTruncate == InitTruncate /\ [][NextTruncate]_vars

-----------------------------------------------------------------------------
(* Properties *)

AfterAnalyze == pc \in {"returned", "exporting", "done", "done_empty", "crashed"}

Indices(q) == 1..Len(q)

\* C1: once analyze_topic has returned on a non-empty fetch, the ResultSet has
\* exactly one row per fetched post, in fetch order: row i carries the keyword
\* as Topic, the author, date, link and engagement of post i, and the result of
\* the summarizer call made for post i, whatever the calls' outcomes were.
C1_OneRowPerPostInOrder ==
    (AfterAnalyze /\ posts # <<>>) =>
        /\ Len(results_df.rows) = Len(posts)
        /\ Len(outcomes) = Len(posts)
        /\ \A i \in Indices(posts) :
            LET row == results_df.rows[i]
                post == posts[i]
            IN /\ row["Topic"] = keyword
               /\ row["Author"] = <<post.author_name, " (@", post.author_username, ")">>
               /\ row["Author Verified"] = post.author_verified
               /\ row["Post Link"] = post.url
               /\ row["Post Link"][4] = ToString(resp.data[i].id)
               /\ row["Post Date"] = <<post.created_at.y, post.created_at.mo, post.created_at.d,
                                       post.created_at.h, post.created_at.mi>>
               /\ row["Engagement"][2] = ToString(post.like_count)
               /\ outcomes[i].post = i
               /\ row["Short Summary"] = IF outcomes[i].kind = "ok"
                                         THEN <<"A short summary.">>
                                         ELSE <<"Summary generation failed">>

\* C1 witness: a run returned two rows, one summarized and one whose call failed.
C1_Witness ==
    /\ pc = "returned"
    /\ Len(posts) >= 2
    /\ Len(results_df.rows) = Len(posts)
    /\ outcomes[1].kind = "raise"
    /\ outcomes[2].kind = "ok"

SearchFailed(r) == r.raised \/ \E k \in Indices(r.data) : PostInfoRaises(r.data[k])

\* C2: when the search call raises, or the mapping of a response item raises,
\* search_x_posts returns the empty sequence (nothing of what was mapped before
\* the failure), reports the error, and the error does not reach its caller.
C2_FetchFailureReturnsEmpty ==
    (search_calls > 0 /\ SearchFailed(resp)) =>
        /\ posts = <<>>
        /\ pc \in {"returned", "done_empty"}
        /\ printed[2] = <<"Error searching X">>

\* C2 witness: the second item of a response failed to map after the first
\* had been mapped, and the fetch returned nothing.
C2_Witness ==
    /\ search_calls = 1
    /\ ~resp.raised
    /\ Len(resp.data) >= 2
    /\ ~PostInfoRaises(resp.data[1])
    /\ PostInfoRaises(resp.data[2])
    /\ posts = <<>>
    /\ pc = "done_empty"

\* C3: a completion call that fails yields exactly the sentinel and does not
\* end the run: the loop goes on to every other post, and once analyze_topic
\* has returned the failed post has its row, with the sentinel as Short Summary
\* and every other field as the post gives it.
C3_SummaryFailureIsSentinel ==
    /\ (pc = "append" /\ outcomes[Len(outcomes)].kind # "ok") =>
            summary = <<"Summary generation failed">>
    /\ (pc = "crashed") => export_calls = 1
    /\ (AfterAnalyze /\ posts # <<>>) =>
        /\ Len(outcomes) = Len(posts)
        /\ \A i \in Indices(posts) :
            /\ outcomes[i].post = i
            /\ outcomes[i].kind # "ok" =>
                /\ Len(results_df.rows) >= i
                /\ results_df.rows[i]["Short Summary"] = <<"Summary generation failed">>
                /\ \A c \in DOMAIN results_df.rows[i] \ {"Short Summary"} :
                     results_df.rows[i][c] = AnalyzedPost(keyword, posts[i], <<>>)[c]

\* C3 witness: the call for the first post raised, the second post was
\* summarized all the same, and the run finished.
C3_Witness ==
    /\ pc = "done"
    /\ Len(posts) >= 2
    /\ outcomes[1].kind = "raise"
    /\ outcomes[2].kind = "ok"
    /\ results_df.rows[1]["Short Summary"] = <<"Summary generation failed">>
    /\ results_df.rows[2]["Short Summary"] = <<"A short summary.">>

\* C4: whenever the fetch has yielded the empty sequence, the run is on its
\* way to DONE_EMPTY with an empty ResultSet: no completion call, no delay,
\* no call of the exporter and no file.
C4_EmptyFetchEndsRun ==
    (search_calls > 0 /\ posts = <<>>) =>
        /\ pc \in {"returned", "done_empty"}
        /\ IsEmpty(results_df)
        /\ outcomes = <<>>
        /\ sleeps = 0
        /\ export_calls = 0
        /\ files = {}
        /\ pc = "done_empty" => printed[Len(printed)] = <<"No results found.">>

\* C4 witness: a run ended in DONE_EMPTY after the search call had raised.
C4_Witness ==
    /\ pc = "done_empty"
    /\ search_calls = 1
    /\ resp.raised
    /\ posts = <<>>

\* C5: once main has resolved the credentials, a missing bearer token or a
\* missing API key means the run has halted with the credential diagnostic
\* printed, and no search call, completion call or export has been made.
C5_MissingCredentialHalts ==
    (pc # "start" /\ (X_BEARER_TOKEN \in {NoneV, ""} \/ DEEPSEEK_API_KEY \in {NoneV, ""})) =>
        /\ pc = "halted"
        /\ Len(printed) = 3
        /\ printed[1] = <<"Error: Missing API credentials">>
        /\ search_calls = 0
        /\ outcomes = <<>>
        /\ export_calls = 0
        /\ files = {}

\* C5 witness: the run halted with the bearer token present and the API key
\* missing.
C5_Witness ==
    /\ pc = "halted"
    /\ X_BEARER_TOKEN = "credential"
    /\ DEEPSEEK_API_KEY \in {NoneV, ""}

\* The stage of the Orchestrator a position of the run belongs to.  After
\* analyze_topic has returned, main is still deciding on the fetch (no posts)
\* or holds the assembled ResultSet.
StageOf(p, fetched) ==
    CASE p = "start" -> "START"
      [] p = "halted" -> "HALTED"
      [] p = "fetching" -> "FETCHING"
      [] p \in {"summarizing", "append", "sleep"} -> "SUMMARIZING"
      [] p = "assembling" -> "ASSEMBLING"
      [] p = "returned" -> IF fetched = <<>> THEN "FETCHING" ELSE "ASSEMBLING"
      [] p = "exporting" -> "EXPORTING"
      [] p = "done_empty" -> "DONE_EMPTY"
      [] p = "done" -> "DONE"
      [] OTHER -> "ABORTED"

StageEdges ==
    {<<"START", "HALTED">>, <<"START", "FETCHING">>, <<"FETCHING", "DONE_EMPTY">>,
     <<"FETCHING", "SUMMARIZING">>, <<"SUMMARIZING", "ASSEMBLING">>,
     <<"ASSEMBLING", "EXPORTING">>, <<"EXPORTING", "DONE">>, <<"EXPORTING", "ABORTED">>}

StageStep ==
    StageOf(pc', posts') # StageOf(pc, posts) =>
        <<StageOf(pc, posts), StageOf(pc', posts')>> \in StageEdges

StageOrder ==
    /\ outcomes # <<>> => (search_calls = 1 /\ posts # <<>> /\ pc \notin {"start", "fetching"})
    /\ search_calls <= 1
    /\ export_calls <= 1
    /\ Len(outcomes) <= Len(posts)
    /\ (pc = "exporting" \/ export_calls > 0) =>
        /\ Len(outcomes) = Len(posts)
        /\ sleeps = Len(posts)
        /\ Len(analyzed_posts) = Len(posts)
        /\ results_df.rows = analyzed_posts
        /\ posts # <<>>
    /\ pc \in {"done", "done_empty"} => search_calls = 1

\* C6: a run changes stage only along START -> FETCHING -> (DONE_EMPTY |
\* SUMMARIZING -> ASSEMBLING -> EXPORTING -> DONE), so no stage is entered
\* twice or after a later one (an export that raises aborts the run in
\* EXPORTING); completion calls come only after the one search call has
\* returned posts; and the export starts only when every fetched post has been
\* summarized and its row is in the ResultSet.
C6_StagesInOrder == [](StageOrder) /\ [][StageStep]_vars

\* C6 witness: a run of two posts reached DONE.
C6_Witness ==
    /\ pc = "done"
    /\ Len(posts) >= 2
    /\ Len(outcomes) = Len(posts)
    /\ export_calls = 1

\* C7: the Original Text of a text of at most 200 characters is the text; of
\* a longer text it is its first 200 characters followed by "..."; it is
\* never longer than 203 characters.
C7_TruncationLaw ==
    pc = "t_done" =>
        /\ Len(t_text) <= 200 => t_out = t_text
        /\ Len(t_text) > 200 =>
            /\ Len(t_out) = 203
            /\ \A c \in 1..200 : t_out[c] = t_text[c]
            /\ \A c \in 201..203 : t_out[c] = "."
        /\ Len(t_out) <= 203

\* C7 witness: a text of more than 200 characters whose 201st character is
\* not a dot was cut.
C7_Witness ==
    /\ pc = "t_done"
    /\ Len(t_text) > 200
    /\ t_text[201] # "."
    /\ t_out # t_text

\* C8: a call of either exporter on an empty row set, with or without a
\* filename, returns normally having printed "No data to save" and nothing
\* else, and leaves the file system as it was: no file created or replaced.
C8_ExportEmptyWritesNothing ==
    (pc \in {"x_real_returned", "x_real_raised", "x_mock_returned", "x_mock_raised"}
        /\ IsEmpty(x_df)) =>
        /\ pc \in {"x_real_returned", "x_mock_returned"}
        /\ printed = <<<<"No data to save">>>>
        /\ files \in {{}, OldFiles}
        /\ \A f \in files : f.format = "old"

\* C8 witness: XTopicAnalyzer.save_to_excel returned from a call with an
\* empty row set and the name of a file that exists.
C8_Witness ==
    /\ pc = "x_real_returned"
    /\ IsEmpty(x_df)
    /\ x_filename = <<"out", ".xlsx">>
    /\ OldFile(<<"out", ".xlsx">>) \in files

\* Some file holds the rows of df and is the one reported as saved.
RowsSavedAndReported(df) ==
    \E f \in files :
        /\ f.rows = df.rows
        /\ f.columns = Columns
        /\ \E k \in Indices(printed) : printed[k] = <<"Results saved to: ">> \o f.name

\* C9: once main has called the exporter on its non-empty ResultSet, whatever
\* went wrong while the spreadsheet was opened or written, the export has
\* returned: the run is not aborted, the rows are in a file (the spreadsheet,
\* or the delimited file named after it) and that file is the one reported.
C9_SpreadsheetFailureFallsBack ==
    export_calls > 0 =>
        /\ pc = "done"
        /\ RowsSavedAndReported(results_df)
        /\ \A f \in files : f.name \in {<<"x_analysis_", "20250215_103000", ".xlsx">>,
                                        <<"x_analysis_", "20250215_103000", ".csv">>}

\* C10: once main has called the exporter, with no filename, on its non-empty
\* ResultSet in a runtime without the spreadsheet capability, the run has
\* finished and a .csv file holds the header columns in order and one row per
\* AnalyzedRow.
C10_NoCapabilityWritesCsv ==
    (export_calls > 0 /\ ~openpyxl_available) =>
        /\ pc = "done"
        /\ \E f \in files :
            /\ f.format = "csv"
            /\ f.name[Len(f.name)] = ".csv"
            /\ f.columns = <<"Topic", "Author", "Author Verified", "Post Date", "Post Link",
                             "Short Summary", "Original Text", "Engagement">>
            /\ f.rows = results_df.rows

\* C11: the completion endpoint is called once per fetched post, in fetch
\* order and never twice for a post, failed or not: the k-th call made is the
\* call for post k; call k+1 is made only after call k has returned, its row
\* has been appended and its delay taken; and once the loop is over there
\* have been exactly as many calls and as many delays as fetched posts.
C11_OneCallPerPostInOrder ==
    /\ Len(outcomes) <= Len(posts)
    /\ \A k \in Indices(outcomes) : outcomes[k].post = k
    /\ sleeps <= Len(outcomes)
    /\ Len(outcomes) <= sleeps + 1
    /\ pc = "summarizing" =>
        /\ idx = Len(outcomes) + 1
        /\ sleeps = Len(outcomes)
        /\ Len(analyzed_posts) = Len(outcomes)
    /\ pc \in {"append", "sleep"} =>
        /\ idx = Len(outcomes)
        /\ sleeps = Len(outcomes) - 1
    /\ pc \in {"assembling", "returned", "exporting", "done", "done_empty", "crashed"} =>
        /\ Len(outcomes) = Len(posts)
        /\ sleeps = Len(posts)

\* C11 witness: a run of two posts ended with two calls and two delays, the
\* first of the calls having failed.
C11_Witness ==
    /\ pc = "done"
    /\ Len(posts) = 2
    /\ Len(outcomes) = 2
    /\ sleeps = 2
    /\ outcomes[1].kind = "raise"

\* The response's author metadata has an entry for author id a.
AuthorListed(r, a) ==
    r.includes.present /\ \E k \in Indices(r.includes.users) : r.includes.users[k].id = a

\* C12: when the search answers with items and none of them fails to map,
\* search_x_posts returns one record per item, in the order of the response,
\* and does not report a failure; a record whose author is not in the author
\* metadata (no metadata at all, or no entry for the id) has "unknown" as
\* name and username, verified false, and the permalink of the "unknown"
\* handle; a record whose author is listed carries the listed fields.
C12_UnknownAuthorFallback ==
    (search_calls > 0 /\ ~SearchFailed(resp) /\ resp.data # <<>>) =>
        /\ pc # "crashed" \/ export_calls > 0
        /\ Len(posts) = Len(resp.data)
        /\ \A k \in Indices(printed) : printed[k] # <<"Error searching X">>
        /\ \A i \in Indices(resp.data) :
            LET tweet == resp.data[i]
            IN /\ posts[i].tweet_id = tweet.id
               /\ posts[i].author_id = tweet.author_id
               /\ posts[i].text = tweet.text
               /\ ~AuthorListed(resp, tweet.author_id) =>
                    /\ posts[i].author_name = "unknown"
                    /\ posts[i].author_username = "unknown"
                    /\ posts[i].author_verified = FALSE
                    /\ posts[i].url = <<"https://twitter.com/", "unknown", "/status/",
                                        ToString(tweet.id)>>
               /\ AuthorListed(resp, tweet.author_id) =>
                    /\ posts[i].author_username # "unknown"
                    /\ posts[i].url[2] = posts[i].author_username

\* C12 witness: the metadata lists the author of the second item only, and
\* the fetch returned both records, the first with the fallback values.
C12_Witness ==
    /\ search_calls = 1
    /\ Len(resp.data) = 2
    /\ resp.includes.present
    /\ ~AuthorListed(resp, resp.data[1].author_id)
    /\ AuthorListed(resp, resp.data[2].author_id)
    /\ Len(posts) = 2
    /\ posts[1].author_username = "unknown"
    /\ posts[2].author_username = "alice"

\* C12 second case: no author metadata at all, and the fetch returned the
\* records with the fallback values.
C12_NoMetadataReached ==
    /\ search_calls = 1
    /\ ~resp.includes.present
    /\ Len(posts) = 2
    /\ posts[1].author_name = "unknown"
    /\ posts[2].author_name = "unknown"

====
